---- MODULE Spec2Model ----
(***************************************************************************)
(* The windowed ingestion loop of fetch_pyth_btc_1min.py (CSV/JSON output) *)
(* and fetch_pyth_btc_1sec.py (PostgreSQL output): main's --resume         *)
(* handling, run's setup, the per-window loop, the periodic checkpoint and *)
(* the finally block, together with the files and the table they leave    *)
(* behind from one run to the next.                                        *)
(***************************************************************************)
EXTENDS Integers, Sequences, FiniteSets, TLC

VARIABLES
    variant,        \* "csv": fetch_pyth_btc_1min.py, "db": fetch_pyth_btc_1sec.py
    now,            \* int(time.time()) read by run
    api,            \* what the Benchmarks API answers, fixed for a behaviour
    csv,            \* rows of pyth_btc_usd_1min_1y.csv on disk
    db,             \* rows of table pyth_btc_usd_1sec
    cp,             \* the checkpoint file: None (absent) or Some(timestamp)
    pc,             \* position of the process
    t,              \* loop cursor
    start_ts,       \* effective start of the run
    end_ts,         \* end of the range (exclusive)
    fetched,        \* fetched / fetched_windows
    all_rows,       \* rows held in memory by the CSV script
    total_inserted, \* total_inserted of the DB script
    max_minutes,    \* max_minutes argument: None or Some(n)
    resume_from_ts, \* resume_from_ts argument: None or Some(ts)
    exc,            \* an exception is propagating out of the loop
    cur,            \* history: how this run was started and what it did
    prev,           \* history: the runs before this one
    runs,           \* runs started so far
    faults          \* interrupts and kills so far

vars == <<variant, now, api, csv, db, cp, pc, t, start_ts, end_ts, fetched,
          all_rows, total_inserted, max_minutes, resume_from_ts, exc,
          cur, prev, runs, faults>>

-----------------------------------------------------------------------------
(* Program constants *)

INTERVAL_SEC == 60
SECONDS_PER_DAY == 86400
DAYS_PER_YEAR == 365
CHECKPOINT_EVERY == 100

(* Bounds of the model *)

\* the first run of a behaviour plans at most this many windows
MaxWindows == 103
\* a run after the first plans at most this many windows
MaxResumeWindows == 4
\* runs of a behaviour
MaxRuns == 2
\* interrupts and kills of a behaviour
MaxFaults == 1

(* Inputs *)

None == <<>>
Some(v) == <<v>>
Val(o) == o[1]

Max(a, b) == IF a >= b THEN a ELSE b
Min(a, b) == IF a <= b THEN a ELSE b

\* explicit resume_from_ts values a caller of run() passes
ResumeChoices == {1000}
\* --max-minutes values
CapChoices == {2}
\* --start-days-ago values
DaysAgoChoices == {365}
\* the window whose answer differs from the others
SpecialAt == 1000 + INTERVAL_SEC

Styles == {"single", "span"}
Kinds == {"none", "fail", "empty", "late", "noprice", "badprice", "notime",
          "badtime", "sinkfail"}

\* clock value and API behaviour of a behaviour: a 3-window range under every
\* API behaviour, a range long enough for a checkpoint under two of them
Scenarios ==
    { [now |-> 1150, style |-> "single", kind |-> k] : k \in Kinds }
    \cup
    { [now |-> 1150, style |-> "span", kind |-> k] : k \in {"none", "fail"} }
    \cup
    { [now |-> 7150, style |-> "single", kind |-> "none"],
      [now |-> 7150, style |-> "span", kind |-> "fail"] }

-----------------------------------------------------------------------------
(* The Benchmarks API and fetch_window *)

Num(v) == [tag |-> "num", v |-> v]
Missing == [tag |-> "missing", v |-> 0]
Bad == [tag |-> "bad", v |-> 0]

\* raw integer price the API reports for second ts
PriceAt(ts) == 40000 + (ts % 997)

\* one well-formed item of a response
Good(ts) == [price |-> Num(PriceAt(ts)), publish_time |-> Num(ts), conf |-> Num(ts % 5)]

\* the same item with one field malformed
Malformed(kind, ts) ==
    CASE kind = "noprice"  -> [Good(ts) EXCEPT !.price = Missing]
      [] kind = "badprice" -> [Good(ts) EXCEPT !.price = Bad]
      [] kind = "notime"   -> [Good(ts) EXCEPT !.publish_time = Missing]
      [] kind = "badtime"  -> [Good(ts) EXCEPT !.publish_time = Bad]

\* the API holds one price a minute, at the seconds 1000, 1060, 1120, ...:
\* the first such second at or after w
FirstPriceFrom(w) == w + ((1000 - w) % INTERVAL_SEC)

\* the items the API returns for window w. Style "single": the prices of
\* [w, w + 60), one item. Style "span": the prices of [w, w + 60], so that a
\* window starting on a price also returns the first price of the next window
Base(w) ==
    LET g == FirstPriceFrom(w) IN
    IF api.style = "span" /\ g = w THEN <<Good(w), Good(w + INTERVAL_SEC)>>
    ELSE <<Good(g)>>

\* the HTTP exchange of fetch_window: ok = FALSE when the request raises
Response(w) ==
    IF w # SpecialAt \/ api.kind \in {"none", "sinkfail"}
    THEN [ok |-> TRUE, data |-> Base(w)]
    ELSE CASE api.kind = "fail"  -> [ok |-> FALSE, data |-> <<>>]
           [] api.kind = "empty" -> [ok |-> TRUE, data |-> <<>>]
           [] api.kind = "late"  -> [ok |-> TRUE, data |-> <<Good(w + INTERVAL_SEC)>>]
           [] OTHER -> [ok |-> TRUE,
                        data |-> <<Malformed(api.kind, w), Good(w + 1)>>]

IsoUtc(ts) == <<"utc", ts>>

\* int(raw) * (10 ** expo) of a numeric field
Scaled(f) == Some(f.v)

RECURSIVE ParseCsv(_, _, _)
\* the item loop of fetch_window in the CSV script: an item needs price and
\* publish_time present; a price int() rejects gives price None and conf None;
\* datetime.fromtimestamp of a publish_time that is no number raises
ParseCsv(data, i, rows) ==
    IF i > Len(data) THEN [ok |-> TRUE, rows |-> rows]
    ELSE LET r == data[i] IN
         IF r.price.tag # "missing" /\ r.publish_time.tag # "missing"
         THEN IF r.publish_time.tag = "bad"
              THEN [ok |-> FALSE, rows |-> <<>>]
              ELSE ParseCsv(data, i + 1, Append(rows,
                     [timestamp |-> r.publish_time.v,
                      datetime_utc |-> IsoUtc(r.publish_time.v),
                      price |-> IF r.price.tag = "num" THEN Scaled(r.price) ELSE None,
                      conf |-> IF r.price.tag = "num" THEN Scaled(r.conf) ELSE None,
                      expo |-> -8]))
         ELSE ParseCsv(data, i + 1, rows)

RECURSIVE ParseDb(_, _, _)
\* the item loop of fetch_window in the DB script: an item with price or
\* publish_time absent, or with a price int() rejects, is skipped;
\* datetime.fromtimestamp of a publish_time that is no number raises
ParseDb(data, i, rows) ==
    IF i > Len(data) THEN [ok |-> TRUE, rows |-> rows]
    ELSE LET r == data[i] IN
         IF r.price.tag = "missing" \/ r.publish_time.tag = "missing"
         THEN ParseDb(data, i + 1, rows)
         ELSE IF r.price.tag = "bad"
         THEN ParseDb(data, i + 1, rows)
         ELSE IF r.publish_time.tag = "bad"
         THEN [ok |-> FALSE, rows |-> <<>>]
         ELSE ParseDb(data, i + 1, Append(rows,
                [timestamp |-> r.publish_time.v,
                 datetime_utc |-> IsoUtc(r.publish_time.v),
                 price |-> Scaled(r.price),
                 conf |-> Scaled(r.conf)]))

\* fetch_window(timestamp): [ok, rows]; ok = FALSE when it raises
FetchWindowCsv(w) ==
    LET resp == Response(w) IN
    IF resp.ok THEN ParseCsv(resp.data, 1, <<>>) ELSE [ok |-> FALSE, rows |-> <<>>]

FetchWindowDb(w) ==
    LET resp == Response(w) IN
    IF resp.ok THEN ParseDb(resp.data, 1, <<>>) ELSE [ok |-> FALSE, rows |-> <<>>]

\* the four fields one_price_per_minute copies from a row of fetch_window
MinuteRow(r) ==
    [timestamp |-> r.timestamp, datetime_utc |-> r.datetime_utc,
     price |-> r.price, conf |-> r.conf]

\* one_price_per_minute giving a row without price for an empty window
one_price_per_minute_or_blank(rows) ==
    IF rows = <<>>
    THEN Some([timestamp |-> 0, datetime_utc |-> IsoUtc(0), price |-> None,
               conf |-> None])
    ELSE Some(MinuteRow(rows[1]))

\* one_price_per_minute taking the last update of the window
one_price_per_minute_last(rows) ==
    IF rows = <<>> THEN None ELSE Some(MinuteRow(rows[Len(rows)]))

\* one_price_per_minute(rows): None, or the first row's four fields
one_price_per_minute(rows) ==
    IF rows = <<>> THEN None ELSE Some(MinuteRow(rows[1]))

-----------------------------------------------------------------------------
(* The durable stores *)

TimestampsOf(rows) == { rows[i].timestamp : i \in DOMAIN rows }

\* flush_files(rows): rewrites the CSV (and the JSON) unless rows is empty
flush_files(file, rows) == IF rows = <<>> THEN file ELSE rows

\* get_last_timestamp_from_db: SELECT MAX(timestamp)
get_last_timestamp_from_db(table) ==
    IF table = {} THEN None
    ELSE Some(CHOOSE m \in {r.timestamp : r \in table} :
                \A r \in table : r.timestamp <= m)

\* max(int(r["timestamp"]) for r in existing)
LastCsvTimestamp(rows) ==
    LET tss == TimestampsOf(rows) IN CHOOSE m \in tss : \A x \in tss : x <= m

RECURSIVE InsertOnConflictDoNothing(_, _, _)
\* INSERT ... ON CONFLICT (timestamp) DO NOTHING, row by row
InsertOnConflictDoNothing(table, rows, i) ==
    IF i > Len(rows) THEN table
    ELSE InsertOnConflictDoNothing(
           IF \E r \in table : r.timestamp = rows[i].timestamp
           THEN table ELSE table \cup {rows[i]},
           rows, i + 1)

\* insert_rows_db(conn, rows): the table afterwards and the count returned
insert_rows_db(table, rows) ==
    IF rows = <<>> THEN [table |-> table, count |-> 0]
    ELSE [table |-> InsertOnConflictDoNothing(table, rows, 1), count |-> Len(rows)]

\* the database rejects the statement of this window
SinkRaises(w) == api.kind = "sinkfail" /\ w = SpecialAt

\* timestamps durably recorded by the script in use
StoreTimestamps == IF variant = "csv" THEN TimestampsOf(csv) ELSE {r.timestamp : r \in db}

-----------------------------------------------------------------------------
(* main and the setup of run *)

Terminal == {"idle", "done", "raised", "killed", "aborted"}
InLoop == {"loop", "sleep", "ckpt", "flush", "progress"}

\* AlignDown without the rounding
AlignDownOmitted(x) == x

\* (x // INTERVAL_SEC) * INTERVAL_SEC
AlignDown(x) == (x \div INTERVAL_SEC) * INTERVAL_SEC

\* main: --resume reads the checkpoint file when it exists; otherwise the
\* caller's resume_from_ts (None from the command line) reaches run
ResumeArgument(flag, explicit) ==
    IF flag /\ cp # None THEN cp ELSE explicit

\* start_ts before any resume: now minus the days back, aligned
RangeStart(clock, days) == AlignDown(clock - days * SECONDS_PER_DAY)

\* end_ts before any cap: now, aligned
RangeEnd(clock) == AlignDown(clock)

\* start_ts after "if resume_from_ts is not None"
ClampedStart(s0, resume) ==
    IF resume # None THEN Max(s0, Val(resume)) ELSE s0

\* the CSV script: start_ts after "if existing and resume_from_ts is None"
EffectiveStartCsv(s0, resume, existing) ==
    IF existing # <<>> /\ resume = None
    THEN Max(ClampedStart(s0, resume), LastCsvTimestamp(existing) + INTERVAL_SEC)
    ELSE ClampedStart(s0, resume)

\* EffectiveStartDb going on one window after the last row instead of one second
EffectiveStartDbWholeStep(s0, resume, table) ==
    LET db_last == get_last_timestamp_from_db(table) IN
    IF db_last # None /\ resume = None
    THEN Max(ClampedStart(s0, resume), Val(db_last) + INTERVAL_SEC)
    ELSE ClampedStart(s0, resume)

\* the DB script: start_ts after "if db_last is not None and resume_from_ts is None"
EffectiveStartDb(s0, resume, table) ==
    LET db_last == get_last_timestamp_from_db(table) IN
    IF db_last # None /\ resume = None
    THEN Max(ClampedStart(s0, resume), Val(db_last) + 1)
    ELSE ClampedStart(s0, resume)

\* the DB script: end_ts after "if max_minutes is not None"
CappedEndDb(e0, s1, cap) ==
    IF cap # None THEN Min(e0, s1 + Val(cap) * INTERVAL_SEC) ELSE e0

\* days_back of the DB script; the CSV script always goes back a year
DaysBack(days) == IF days = None THEN DAYS_PER_YEAR ELSE Val(days)

\* windows between s and e
WindowsBetween(s, e) ==
    IF e > s THEN (e - s + INTERVAL_SEC - 1) \div INTERVAL_SEC ELSE 0

\* windows a run may attempt: up to the end of the range, and with a cap no
\* more than the cap plus the one window the API may fail
Planned(s, e, cap) ==
    IF cap = None THEN WindowsBetween(s, e)
    ELSE Min(WindowsBetween(s, e), Val(cap) + 1)

\* number of rows the store holds
StoreSize == IF variant = "csv" THEN Len(csv) ELSE Cardinality(db)

\* the rows the sink takes from window w: the one row the CSV loop appends,
\* the rows the DB loop inserts
SinkInput(w) ==
    IF variant = "csv"
    THEN LET res == FetchWindowCsv(w)
             row == one_price_per_minute(res.rows)
         IN IF res.ok /\ row # None THEN <<Val(row)>> ELSE <<>>
    ELSE LET res == FetchWindowDb(w)
         IN IF res.ok /\ ~SinkRaises(w) THEN res.rows ELSE <<>>

\* window starts the run that began at s has attempted when its cursor is at c
Attempted(s, c) == { s + i * INTERVAL_SEC : i \in 0 .. ((c - s) \div INTERVAL_SEC) - 1 }

\* AfterSetupExit with the checkpoint file removed on the way out
AfterSetupExitUnlinked(file) == None

\* the checkpoint file after sys.exit(1) in the setup of the DB script: the
\* try/finally of the loop has not been entered
AfterSetupExit(file) == file

StartRun(flag, explicit, cap, days, dbUp) ==
    /\ pc \in Terminal
    /\ runs < MaxRuns
    /\ flag => explicit = None
    /\ LET resume == ResumeArgument(flag, explicit)
           s0 == RangeStart(now, IF variant = "csv" THEN DAYS_PER_YEAR ELSE DaysBack(days))
           e0 == RangeEnd(now)
           s1 == ClampedStart(s0, resume)
           e  == IF variant = "csv" THEN e0 ELSE CappedEndDb(e0, s1, cap)
           s  == IF variant = "csv" THEN EffectiveStartCsv(s0, resume, csv)
                 ELSE EffectiveStartDb(s0, resume, db)
           setupOk == variant = "csv" \/ dbUp
       IN /\ Planned(s, e, cap) <= (IF runs = 0 THEN MaxWindows ELSE MaxResumeWindows)
          /\ prev' = [exit |-> pc, start |-> start_ts, end |-> end_ts,
                      cap |-> max_minutes, resume |-> resume_from_ts,
                      wrote |-> cur.wrote, cp |-> cp, size |-> StoreSize,
                      distinct |-> Cardinality(StoreTimestamps),
                      ranges |-> IF t > start_ts
                                 THEN prev.ranges \cup {[from |-> start_ts, upto |-> t]}
                                 ELSE prev.ranges]
          /\ cur' = [flag |-> flag, range_start |-> s0, wrote |-> None,
                      refetch |-> FALSE, slept |-> 0]
          /\ resume_from_ts' = resume
          /\ max_minutes' = cap
          /\ end_ts' = e
          /\ exc' = FALSE
          /\ fetched' = 0
          /\ total_inserted' = 0
          /\ IF setupOk
             THEN /\ start_ts' = s
                  /\ t' = s
                  /\ all_rows' = IF variant = "csv" THEN csv ELSE <<>>
                  /\ pc' = "loop"
             ELSE /\ start_ts' = s1
                  /\ t' = s1
                  /\ all_rows' = <<>>
                  /\ pc' = "aborted"
          /\ cp' = IF setupOk THEN cp ELSE AfterSetupExit(cp)
    /\ runs' = runs + 1
    /\ UNCHANGED <<variant, now, api, csv, db, faults>>

-----------------------------------------------------------------------------
(* The loop *)

\* while t < end_ts and (max_minutes is None or fetched < max_minutes)
LoopCondition ==
    t < end_ts /\ (IF max_minutes = None THEN TRUE ELSE fetched < Val(max_minutes))

\* an earlier run put window w's output into the store, and it is there now
AlreadyRecorded(w) ==
    /\ \E r \in prev.ranges : w \in Attempted(r.from, r.upto)
    /\ SinkInput(w) # <<>>
    /\ TimestampsOf(SinkInput(w)) \subseteq StoreTimestamps

\* AfterWindow with the sleep inside the try: skipped when the window raised
AfterWindowSleepInTry(ok) == IF ok THEN "sleep" ELSE "loop"

\* where control is after the inner try/except and t += INTERVAL_SEC: at
\* "if delay > 0: time.sleep(delay)", whether or not the window raised
AfterWindow(ok) == "sleep"

\* WindowCsv without the inner except: a failed fetch leaves the loop
WindowCsvFatal ==
    /\ variant = "csv"
    /\ pc = "loop"
    /\ LoopCondition
    /\ LET res == FetchWindowCsv(t)
           row == one_price_per_minute(res.rows)
       IN /\ all_rows' = IF res.ok /\ row # None THEN Append(all_rows, Val(row))
                         ELSE all_rows
          /\ fetched' = IF res.ok THEN fetched + 1 ELSE fetched
          /\ t' = IF res.ok THEN t + INTERVAL_SEC ELSE t
          /\ pc' = IF res.ok THEN "sleep" ELSE "finally"
          /\ exc' = ~res.ok
    /\ cur' = [cur EXCEPT !.refetch = @ \/ AlreadyRecorded(t), !.slept = 0]
    /\ UNCHANGED <<variant, now, api, csv, db, cp, start_ts, end_ts,
                   total_inserted, max_minutes, resume_from_ts, prev,
                   runs, faults>>

\* WindowCsv trying a failed window again instead of moving on
WindowCsvRetry ==
    /\ variant = "csv"
    /\ pc = "loop"
    /\ LoopCondition
    /\ LET res == FetchWindowCsv(t)
           row == one_price_per_minute(res.rows)
       IN /\ all_rows' = IF res.ok /\ row # None THEN Append(all_rows, Val(row))
                         ELSE all_rows
          /\ fetched' = IF res.ok THEN fetched + 1 ELSE fetched
          /\ t' = IF res.ok THEN t + INTERVAL_SEC ELSE t
    /\ cur' = [cur EXCEPT !.refetch = @ \/ AlreadyRecorded(t), !.slept = 0]
    /\ pc' = "sleep"
    /\ UNCHANGED <<variant, now, api, csv, db, cp, start_ts, end_ts,
                   total_inserted, max_minutes, resume_from_ts, exc, prev,
                   runs, faults>>

\* the try block of the CSV loop, then t += INTERVAL_SEC
WindowCsv ==
    /\ variant = "csv"
    /\ pc = "loop"
    /\ LoopCondition
    /\ LET res == FetchWindowCsv(t)
           row == one_price_per_minute(res.rows)
       IN /\ all_rows' = IF res.ok /\ row # None THEN Append(all_rows, Val(row))
                         ELSE all_rows
          /\ fetched' = IF res.ok THEN fetched + 1 ELSE fetched
    /\ cur' = [cur EXCEPT !.refetch = @ \/ AlreadyRecorded(t), !.slept = 0]
    /\ t' = t + INTERVAL_SEC
    /\ pc' = AfterWindow(FetchWindowCsv(t).ok)
    /\ UNCHANGED <<variant, now, api, csv, db, cp, start_ts, end_ts,
                   total_inserted, max_minutes, resume_from_ts, exc, prev,
                   runs, faults>>

\* WindowDb trying a failed window again instead of moving on
WindowDbRetry ==
    /\ variant = "db"
    /\ pc = "loop"
    /\ LoopCondition
    /\ LET res == FetchWindowDb(t)
           sunk == res.ok /\ res.rows # <<>> /\ ~SinkRaises(t)
           done == res.ok /\ (res.rows = <<>> \/ ~SinkRaises(t))
       IN /\ db' = IF sunk THEN insert_rows_db(db, res.rows).table ELSE db
          /\ total_inserted' = IF sunk THEN total_inserted + Len(res.rows)
                               ELSE total_inserted
          /\ fetched' = IF done THEN fetched + 1 ELSE fetched
          /\ t' = IF done THEN t + INTERVAL_SEC ELSE t
    /\ cur' = [cur EXCEPT !.refetch = @ \/ AlreadyRecorded(t), !.slept = 0]
    /\ pc' = "sleep"
    /\ UNCHANGED <<variant, now, api, csv, cp, start_ts, end_ts, all_rows,
                   max_minutes, resume_from_ts, exc, prev, runs, faults>>

\* the try block of the DB loop, then t += INTERVAL_SEC
WindowDb ==
    /\ variant = "db"
    /\ pc = "loop"
    /\ LoopCondition
    /\ LET res == FetchWindowDb(t)
           sunk == res.ok /\ res.rows # <<>> /\ ~SinkRaises(t)
           done == res.ok /\ (res.rows = <<>> \/ ~SinkRaises(t))
       IN /\ db' = IF sunk THEN insert_rows_db(db, res.rows).table ELSE db
          /\ total_inserted' = IF sunk THEN total_inserted + Len(res.rows)
                               ELSE total_inserted
          /\ fetched' = IF done THEN fetched + 1 ELSE fetched
    /\ cur' = [cur EXCEPT !.refetch = @ \/ AlreadyRecorded(t), !.slept = 0]
    /\ t' = t + INTERVAL_SEC
    /\ pc' = AfterWindow(FetchWindowDb(t).ok /\ ~SinkRaises(t))
    /\ UNCHANGED <<variant, now, api, csv, cp, start_ts, end_ts, all_rows,
                   max_minutes, resume_from_ts, exc, prev, runs, faults>>

\* the loop condition fails: control reaches the finally block
LoopExit ==
    /\ pc = "loop"
    /\ ~LoopCondition
    /\ pc' = "finally"
    /\ UNCHANGED <<variant, now, api, csv, db, cp, t, start_ts, end_ts, fetched,
                   all_rows, total_inserted, max_minutes, resume_from_ts, exc,
                   cur, prev, runs, faults>>

\* CheckpointDue counting every window the cursor has passed
CheckpointDueByCursor ==
    t > start_ts /\ ((t - start_ts) \div INTERVAL_SEC) % CHECKPOINT_EVERY = 0

\* fetched % 100 == 0 and fetched
CheckpointDue == fetched > 0 /\ fetched % CHECKPOINT_EVERY = 0

\* time.sleep(delay) with delay > 0 (the default of both scripts), then the
\* test that guards the checkpoint
Sleep ==
    /\ pc = "sleep"
    /\ cur' = [cur EXCEPT !.slept = @ + 1]
    /\ pc' = IF CheckpointDue THEN "ckpt" ELSE "loop"
    /\ UNCHANGED <<variant, now, api, csv, db, cp, t, start_ts, end_ts, fetched,
                   all_rows, total_inserted, max_minutes, resume_from_ts, exc,
                   prev, runs, faults>>

\* CheckpointValue naming the window just fetched instead of the next one
CheckpointValueLastFetched == t - INTERVAL_SEC

\* the value the loop writes to the checkpoint file
CheckpointValue == t

\* with open(checkpoint_path, "w") as f: f.write(str(t))
WriteCheckpoint ==
    /\ pc = "ckpt"
    /\ cp' = Some(CheckpointValue)
    /\ cur' = [cur EXCEPT !.wrote = Some(CheckpointValue)]
    /\ pc' = IF variant = "csv" THEN "flush" ELSE "progress"
    /\ UNCHANGED <<variant, now, api, csv, db, t, start_ts, end_ts, fetched,
                   all_rows, total_inserted, max_minutes, resume_from_ts, exc,
                   prev, runs, faults>>

\* flush_files(all_rows) after the checkpoint write, and the progress line
FlushAfterCheckpoint ==
    /\ pc = "flush"
    /\ csv' = flush_files(csv, all_rows)
    /\ pc' = "loop"
    /\ UNCHANGED <<variant, now, api, db, cp, t, start_ts, end_ts, fetched,
                   all_rows, total_inserted, max_minutes, resume_from_ts, exc,
                   cur, prev, runs, faults>>

\* the progress line of the DB loop
Progress ==
    /\ pc = "progress"
    /\ pc' = "loop"
    /\ UNCHANGED <<variant, now, api, csv, db, cp, t, start_ts, end_ts, fetched,
                   all_rows, total_inserted, max_minutes, resume_from_ts, exc,
                   cur, prev, runs, faults>>

\* KeyboardInterrupt (not an Exception) raised inside the outer try
Interrupt ==
    /\ pc \in InLoop
    /\ faults < MaxFaults
    /\ faults' = faults + 1
    /\ exc' = TRUE
    /\ pc' = "finally"
    /\ UNCHANGED <<variant, now, api, csv, db, cp, t, start_ts, end_ts, fetched,
                   all_rows, total_inserted, max_minutes, resume_from_ts,
                   cur, prev, runs>>

\* FinalFlush with the flush left out of the finally block
FinalFlushSkipped(file, rows) == file

\* what the finally block leaves in the CSV: if all_rows: flush_files(all_rows)
FinalFlush(file, rows) == flush_files(file, rows)

\* finally, first statement: the final flush (CSV) or conn.close() (DB)
Finally ==
    /\ pc = "finally"
    /\ csv' = IF variant = "csv" THEN FinalFlush(csv, all_rows) ELSE csv
    /\ pc' = "unlink"
    /\ UNCHANGED <<variant, now, api, db, cp, t, start_ts, end_ts, fetched,
                   all_rows, total_inserted, max_minutes, resume_from_ts, exc,
                   cur, prev, runs, faults>>

\* AfterUnlink with the unlink left out
AfterUnlinkKept(file, raised) == file

\* the checkpoint file after "if checkpoint_path.exists(): checkpoint_path.unlink()"
AfterUnlink(file, raised) == None

\* finally, second statement; then run returns or the exception goes on
Unlink ==
    /\ pc = "unlink"
    /\ cp' = AfterUnlink(cp, exc)
    /\ pc' = IF exc THEN "raised" ELSE "done"
    /\ UNCHANGED <<variant, now, api, csv, db, t, start_ts, end_ts, fetched,
                   all_rows, total_inserted, max_minutes, resume_from_ts, exc,
                   cur, prev, runs, faults>>

\* the process is stopped without running finally (SIGKILL, power loss)
Kill ==
    /\ pc \notin Terminal
    /\ faults < MaxFaults
    /\ faults' = faults + 1
    /\ pc' = "killed"
    /\ UNCHANGED <<variant, now, api, csv, db, cp, t, start_ts, end_ts, fetched,
                   all_rows, total_inserted, max_minutes, resume_from_ts, exc,
                   cur, prev, runs>>

-----------------------------------------------------------------------------

Init ==
    /\ variant \in {"csv", "db"}
    /\ \E sc \in Scenarios :
         /\ sc.kind = "sinkfail" => variant = "db"
         /\ now = sc.now
         /\ api = [style |-> sc.style, kind |-> sc.kind]
    /\ csv = <<>>
    /\ db = {}
    /\ cp = None
    /\ pc = "idle"
    /\ t = 0
    /\ start_ts = 0
    /\ end_ts = 0
    /\ fetched = 0
    /\ all_rows = <<>>
    /\ total_inserted = 0
    /\ max_minutes = None
    /\ resume_from_ts = None
    /\ exc = FALSE
    /\ cur = [flag |-> FALSE, range_start |-> 0, wrote |-> None, refetch |-> FALSE,
              slept |-> 0]
    /\ prev = [exit |-> "idle", start |-> 0, end |-> 0, cap |-> None,
               resume |-> None, wrote |-> None, cp |-> None, size |-> 0,
               distinct |-> 0, ranges |-> {}]
    /\ runs = 0
    /\ faults = 0

Next ==
    \/ \E flag \in BOOLEAN,
          explicit \in {None} \cup {Some(x) : x \in ResumeChoices},
          cap \in {None} \cup {Some(n) : n \in CapChoices},
          days \in {None} \cup {Some(d) : d \in DaysAgoChoices},
          dbUp \in BOOLEAN :
            StartRun(flag, explicit, cap, days, dbUp)
    \/ WindowCsv
    \/ WindowDb
    \/ LoopExit
    \/ Sleep
    \/ WriteCheckpoint
    \/ FlushAfterCheckpoint
    \/ Progress
    \/ Interrupt
    \/ Finally
    \/ Unlink
    \/ Kill

Spec == Init /\ [][Next]_vars

\* the steps of a run that nothing outside the process cuts short
RunStep ==
    \/ WindowCsv
    \/ WindowDb
    \/ LoopExit
    \/ Sleep
    \/ WriteCheckpoint
    \/ FlushAfterCheckpoint
    \/ Progress
    \/ Finally
    \/ Unlink

NextUndisturbed ==
    \/ \E flag \in BOOLEAN,
          explicit \in {None} \cup {Some(x) : x \in ResumeChoices},
          cap \in {None} \cup {Some(n) : n \in CapChoices},
          days \in {None} \cup {Some(d) : d \in DaysAgoChoices},
          dbUp \in BOOLEAN :
            StartRun(flag, explicit, cap, days, dbUp)
    \/ RunStep

\* runs that are neither interrupted nor killed; the process, once started,
\* keeps executing its next statement
LiveSpec == Init /\ [][NextUndisturbed]_vars /\ WF_vars(RunStep)

-----------------------------------------------------------------------------
(* Properties *)

RowsOf(rows) == { rows[i] : i \in DOMAIN rows }

\* the rows the store holds, as a set
StoreRowSet == IF variant = "csv" THEN RowsOf(csv) ELSE db

\* no timestamp is stored twice
NoDuplicateTimestamps == Cardinality(StoreTimestamps) = StoreSize

RECURSIVE UninterruptedRows(_, _, _)
\* what one run from s to e with no cap and no interruption hands to the sink
UninterruptedRows(w, e, acc) ==
    IF w >= e THEN acc
    ELSE UninterruptedRows(w + INTERVAL_SEC, e, acc \cup RowsOf(SinkInput(w)))

MaxOf(S) == CHOOSE m \in S : \A x \in S : x <= m

\* C1: when run is left by an exception after this run wrote a checkpoint, the
\* checkpoint file still exists and holds the value written
C1_CheckpointSurvivesException ==
    (pc = "raised" /\ cur.wrote # None) => (cp # None /\ cp = cur.wrote)

\* C2: a run started with --resume after a run that was interrupted once it
\* had written checkpoint t0 starts at t0, and when it ends the store holds
\* what one uninterrupted run over the first run's range hands to the sink
C2_ResumeCorrectness ==
    (/\ runs = 2
     /\ cur.flag
     /\ pc \notin {"idle", "aborted"}
     /\ prev.exit \in {"raised", "killed"}
     /\ prev.wrote # None
     /\ prev.cap = None /\ max_minutes = None)
    => /\ start_ts = Val(prev.wrote)
       /\ pc = "done" => StoreRowSet = UninterruptedRows(prev.start, prev.end, {})

\* C3: a run started fresh, with --resume, or from the rows of the CSV or of
\* the table never fetches a window whose output the store already holds
C3_NoRefetchOfRecordedWindow ==
    (cur.flag \/ resume_from_ts = None) => ~cur.refetch

\* the state StartRun leaves: nothing fetched yet, the stores and the
\* checkpoint file as run found them
JustStarted == pc = "loop" /\ t = start_ts /\ fetched = 0

C5_CheckpointIsNextWindow ==
    (pc \notin Terminal /\ cp # None) => Val(cp) = t

\* C5 as amended: a checkpoint the run has written equals the cursor at the
\* moment it is written and is never later than the cursor afterwards
C5_CheckpointAtWrite ==
    (pc \notin Terminal /\ cur.wrote # None /\ cp # None) =>
       /\ cp = cur.wrote
       /\ Val(cp) <= t
       /\ pc \in {"flush", "progress"} => Val(cp) = t

\* C5 witness: the cursor has moved on from a checkpoint this run wrote
C5_Witness ==
    pc = "sleep" /\ cur.wrote # None /\ cp = cur.wrote /\ Val(cp) < t

\* C6: a second complete run over the range a first complete run covered,
\* fetching only windows the first run fetched, leaves the store as the first
\* run left it (the store only grows, so: the same number of rows), and adds
\* no second row for a timestamp
C6_Idempotence ==
    (/\ runs = 2 /\ pc = "done" /\ prev.exit = "done"
     /\ prev.cap = None /\ max_minutes = None
     /\ prev.start <= start_ts /\ prev.end = end_ts
     /\ \A w \in Attempted(start_ts, t) :
          \E r \in prev.ranges : w \in Attempted(r.from, r.upto))
    => /\ StoreSize = prev.size
       /\ prev.distinct = prev.size => NoDuplicateTimestamps

\* C7: after one run the store holds at most one row per timestamp
C7_OneRowPerTimestamp ==
    (runs = 1 /\ pc = "done") => NoDuplicateTimestamps

Malformations == {"noprice", "badprice", "notime", "badtime"}

\* C8: a malformed item is dropped and its valid sibling is returned by
\* fetch_window and persisted
C8_MalformedDropped ==
    (/\ api.kind \in Malformations
     /\ pc = "done"
     /\ SpecialAt \in Attempted(start_ts, t))
    => LET res == IF variant = "csv" THEN FetchWindowCsv(SpecialAt)
                  ELSE FetchWindowDb(SpecialAt)
       IN /\ res.ok
          /\ TimestampsOf(res.rows) = {SpecialAt + 1}
          /\ \A i \in DOMAIN res.rows : res.rows[i].price # None
          /\ SpecialAt + 1 \in StoreTimestamps
          /\ \A r \in StoreRowSet : r.timestamp # SpecialAt /\ r.price # None

\* the fetch or the sink of window w raises
WindowFails(w) ==
    \/ ~(IF variant = "csv" THEN FetchWindowCsv(w).ok ELSE FetchWindowDb(w).ok)
    \/ (variant = "db" /\ SinkRaises(w) /\ FetchWindowDb(w).rows # <<>>)

\* C9: a window whose fetch or sink raises is not fatal: no exception leaves
\* the loop because of it, the run goes on to the end of the range and ends
\* done, the failed window adds nothing (seen in a first run, whose store
\* started empty), the other windows' points are stored; from 1000 with
\* windows 1000, 1060, 1120 and fetch(1060) failing the store holds exactly
\* the rows 1000 and 1120
C9_WindowFailureNonFatal ==
    /\ exc => faults > 0
    /\ pc = "done" =>
         /\ max_minutes = None => t >= end_ts
         /\ \A w \in Attempted(start_ts, t) :
              IF WindowFails(w)
              THEN (api.style = "single" /\ runs = 1) => w \notin StoreTimestamps
              ELSE TimestampsOf(SinkInput(w)) \subseteq StoreTimestamps
         /\ (/\ now = 1150 /\ api = [style |-> "single", kind |-> "fail"]
             /\ runs = 1 /\ resume_from_ts = Some(1000) /\ max_minutes = None)
            => (StoreTimestamps = {1000, 1120} /\ StoreSize = 2)

\* C9 witness: the run is done after fetch(1060) failed and window 1120 was
\* fetched and stored
C9_Witness ==
    /\ pc = "done" /\ runs = 1 /\ api.kind = "fail"
    /\ WindowFails(SpecialAt)
    /\ SpecialAt \in Attempted(start_ts, t)
    /\ StoreTimestamps = {1000, 1120}

\* C10: when run returns or is left by an exception, every row a window of
\* this run handed to the sink is in the store
C10_FinalFlushOnEveryExit ==
    pc \in {"done", "raised"} =>
      \A w \in Attempted(start_ts, t) : RowsOf(SinkInput(w)) \subseteq StoreRowSet

\* C10 witness: the CSV run was left by an exception with rows in memory, and
\* the file holds them
C10_Witness ==
    /\ pc = "raised" /\ variant = "csv"
    /\ t > start_ts /\ all_rows # <<>>
    /\ csv = all_rows

\* the loop is about to pass t to fetch_window
AboutToFetch == pc = "loop" /\ LoopCondition

\* C11 as claimed: every window start passed to fetch_window is a multiple
\* of 60
C11_WindowsMultipleOfStep ==
    AboutToFetch => t % 60 = 0

\* C11 as amended: the window starts of a run are its effective start plus a
\* whole number of steps; they are multiples of 60 when the run starts at the
\* computed range start (no resume_from_ts, nothing in the store)
C11_WindowsOnStartGrid ==
    AboutToFetch =>
      /\ t >= start_ts
      /\ (t - start_ts) % 60 = 0
      /\ (resume_from_ts = None /\ prev.size = 0) => t % 60 = 0

\* C11 witness: a run that took its start from the table's last row is
\* about to fetch a later window that is no multiple of 60
C11_Witness ==
    /\ AboutToFetch /\ variant = "db"
    /\ resume_from_ts = None /\ prev.size > 0
    /\ t > start_ts /\ t % 60 # 0

\* fetch_window calls the run has made
FetchCalls == Cardinality(Attempted(start_ts, t))

\* C12: a run with cap N that has ended made min(N, windows between its
\* effective start and the end of the range) calls of fetch_window
C12_CapCountsAttempts ==
    (pc = "done" /\ max_minutes # None) =>
      FetchCalls = Min(Val(max_minutes), WindowsBetween(start_ts, RangeEnd(now)))

\* C13: a DB run whose setup fails ends before the loop: no fetch_window
\* call, the table as it was, the checkpoint file as it was; and a run leaves
\* the loop without an exception only when the loop condition is false
C13_SetupErrorAbortsBeforeLoop ==
    /\ pc = "aborted" =>
         /\ variant = "db"
         /\ fetched = 0 /\ total_inserted = 0
         /\ FetchCalls = 0
         /\ StoreSize = prev.size
         /\ cp = prev.cp
    /\ (pc = "finally" /\ ~exc) => ~LoopCondition

\* C13 witness: the setup failed while a checkpoint file and rows of an
\* earlier run exist
C13_Witness ==
    pc = "aborted" /\ cp # None /\ StoreSize > 0

\* window starts of the range of this run
WindowStarts == { w \in start_ts .. end_ts - 1 : (w - start_ts) % 60 = 0 }

\* every window the run fetched gave the sink one point stamped with the
\* window start
OnePointPerWindow ==
    \A w \in Attempted(start_ts, t) :
       Len(SinkInput(w)) = 1 /\ SinkInput(w)[1].timestamp = w

\* C14: a run over an empty store, without cap, whose fetches all return the
\* one point of the window start, ends with exactly the window starts of
\* [start_ts, end_ts) stored, one row each, and no checkpoint file
C14_CleanRunPersistsWindowStarts ==
    (/\ pc = "done" /\ prev.size = 0 /\ max_minutes = None
     /\ OnePointPerWindow)
    => /\ StoreTimestamps = WindowStarts
       /\ StoreSize = Cardinality(WindowStarts)
       /\ variant = "csv" => csv = all_rows
       /\ cp = None

\* C14 witness: such a run of 103 windows has ended; it wrote a checkpoint
\* on the way
C14_Witness ==
    /\ pc = "done" /\ prev.size = 0 /\ max_minutes = None
    /\ OnePointPerWindow
    /\ cur.wrote # None
    /\ StoreSize = 103

\* the loop has finished an iteration and is back at its condition
IterationDone == pc = "loop" /\ t > start_ts

\* C15 as claimed: whenever the windows the loop has stepped over number a
\* multiple of 100, the checkpoint holds the next window and the rows are
\* flushed
C15_CheckpointEveryHundredWindows ==
    (IterationDone /\ FetchCalls % 100 = 0) =>
       /\ cp = Some(t)
       /\ variant = "csv" => csv = all_rows

\* C15 as amended: the iteration saves the checkpoint (the next window) and
\* flushes exactly when the count of successful windows is then a positive
\* multiple of 100; failed windows are not counted
C15_CheckpointEveryHundredFetched ==
    IterationDone =>
       IF fetched > 0 /\ fetched % 100 = 0
       THEN /\ cp = Some(t) /\ cur.wrote = Some(t)
            /\ variant = "csv" => csv = all_rows
       ELSE cur.wrote = None \/ Val(cur.wrote) < t

\* C15 witness: with one failed window the checkpoint was saved after the
\* 101st window
C15_Witness ==
    IterationDone /\ fetched = 100 /\ FetchCalls = 101 /\ cp = Some(t)

\* C16: within a run the cursor moves only in the step that fetches a
\* window, and then by exactly 60 whatever the fetch did, so no window start
\* is fetched twice and the fetched starts increase
C16_NoRetry ==
    [][ /\ (pc = "loop" /\ pc' = "sleep") => t' = t + 60
        /\ (pc \notin Terminal /\ ~(pc = "loop" /\ pc' = "sleep")) => t' = t
      ]_vars

\* C16 witness: fetch(1060) failed and the cursor is at 1120
C16_Witness ==
    /\ pc = "sleep" /\ api.kind \in {"fail", "sinkfail", "badtime"}
    /\ WindowFails(SpecialAt)
    /\ t = SpecialAt + 60

\* fetch_window(w) returns an empty list
FetchesNothing(w) ==
    LET res == IF variant = "csv" THEN FetchWindowCsv(w) ELSE FetchWindowDb(w)
    IN res.ok /\ res.rows = <<>>

\* C17: the step for a window whose fetch returns no record moves the cursor
\* on by 60 and leaves the files, the table and the rows in memory as they
\* were; the loop goes on to its sleep with no exception
C17_EmptyWindowOnlyAdvances ==
    [][ (pc = "loop" /\ LoopCondition /\ FetchesNothing(t) /\ pc' \notin {"killed", "finally"})
        => /\ t' = t + 60
           /\ csv' = csv /\ db' = db /\ all_rows' = all_rows
           /\ total_inserted' = total_inserted
           /\ cp' = cp
           /\ pc' = "sleep" /\ ~exc'
      ]_vars

\* C17 witness: the window 1060 returned nothing and the cursor is at 1120
C17_Witness ==
    /\ pc = "sleep" /\ api.kind = "empty"
    /\ FetchesNothing(SpecialAt)
    /\ t = SpecialAt + 60 /\ fetched = 2

\* C18: when the loop is about to fetch a window after the first of the run,
\* it has slept exactly once since the window before, whether that window's
\* fetch succeeded or failed; the same on the way through the checkpoint
C18_OneSleepBetweenFetches ==
    /\ (AboutToFetch /\ t > start_ts) => cur.slept = 1
    /\ pc \in {"ckpt", "flush", "progress"} => cur.slept = 1
    /\ pc = "sleep" => cur.slept = 0

\* C18 witness: fetch(1060) failed, the loop slept once and is about to
\* fetch 1120
C18_Witness ==
    /\ AboutToFetch /\ t = SpecialAt + 60
    /\ api.kind = "fail" /\ WindowFails(SpecialAt)
    /\ cur.slept = 1

\* C19: a run whose setup succeeded and that nothing interrupts goes from the
\* loop to done, with no exception on the way, whatever its windows return
C19_RunTerminates ==
    /\ [](pc \notin Terminal => ~exc)
    /\ (pc \in InLoop) ~> (pc = "done")

\* C19 witness: a run is done after a window whose fetch failed or returned
\* nothing
C19_Witness ==
    /\ pc = "done" /\ ~exc
    /\ api.kind \in {"fail", "empty"}
    /\ SpecialAt \in Attempted(start_ts, t)
    /\ t >= end_ts

\* C20: the window step of the one-per-minute script appends to all_rows the
\* timestamp, datetime, price and conf of the first row fetch_window
\* returned, and nothing else; nothing when fetch_window returned no row or
\* raised
C20_FirstRowOfWindow ==
    [][ (variant = "csv" /\ pc = "loop" /\ pc' = "sleep")
        => LET res == FetchWindowCsv(t) IN
           IF res.ok /\ res.rows # <<>>
           THEN all_rows' = Append(all_rows,
                  [timestamp |-> res.rows[1].timestamp,
                   datetime_utc |-> res.rows[1].datetime_utc,
                   price |-> res.rows[1].price,
                   conf |-> res.rows[1].conf])
           ELSE all_rows' = all_rows
      ]_vars

\* C20 witness: window 1000 returned two rows and all_rows holds the first
C20_Witness ==
    /\ variant = "csv" /\ pc = "sleep" /\ t = 1060
    /\ Len(FetchWindowCsv(1000).rows) = 2
    /\ Len(all_rows) = 1 /\ all_rows[1].timestamp = 1000

\* C21: while the checkpoint file holds a value this run of the one-per-minute
\* script wrote, the CSV on disk holds the row of every window before that
\* value that the run fetched with a result
C21_CheckpointCoveredByCsv ==
    (variant = "csv" /\ cp # None /\ cur.wrote = cp) =>
       \A w \in Attempted(start_ts, t) :
          w < Val(cp) => RowsOf(SinkInput(w)) \subseteq RowsOf(csv)

\* C22: in the DB script total_inserted is the number of rows the run has
\* added to the table, and the count insert_rows_db returns for a window is
\* the number of rows that window added
C22_CountsRowsAdded ==
    (variant = "db" /\ runs >= 1 /\ pc # "aborted") =>
       /\ total_inserted = Cardinality(db) - prev.size
       /\ AboutToFetch =>
            LET res == FetchWindowDb(t)
                ins == insert_rows_db(db, res.rows)
            IN (res.ok /\ ~SinkRaises(t)) =>
                 ins.count = Cardinality(ins.table) - Cardinality(db)

====
